---- MODULE Spec2Model ----
(***************************************************************************)
(* Model of example_videos/opaque_overlay_demos.py: the checkerboard frame *)
(* generator, the five demo functions, write_video and the command-line    *)
(* entry point that runs the demos one after the other.                    *)
(***************************************************************************)
EXTENDS Integers, Sequences, FiniteSets, TLC

(* ------------------------------ bounds -------------------------------- *)

\* largest width and height of a checkerboard request
MaxDim == 4
\* largest tile length of a checkerboard request
MaxTile == 3
\* longest --suffix value, counted in tokens
MaxSuffixLen == 3
\* number of runs of the entry point against the same filesystem
MaxRuns == 2

(* --------------------------- program constants ------------------------ *)

FPS == 24

\* the default of checkerboard_clip's parameter tile
DefaultTile == 40

\* the default of checkerboard_clip's parameter colors
DefaultColors == << <<20, 20, 20>>, <<220, 220, 220>> >>

Max(a, b) == IF a >= b THEN a ELSE b

(* ------------------------- checkerboard_clip -------------------------- *)

\* np.arange(n): the array 0, 1, .., n-1 (empty when n <= 0), indexed from 0
NpArange(n) == [i \in 0..(n - 1) |-> i]

\* arr // t, elementwise floor division of an array of non-negative integers
FloorDivArr(arr, t) == [i \in DOMAIN arr |-> arr[i] \div t]

\* len(arr) of a one-dimensional array indexed from 0
NpLen(arr) == Cardinality(DOMAIN arr)

\* variant: the lower limit of the clamp is 2
ClampTileMutant(t) == Max(2, t)

\* tile = max(1, tile)
ClampTile(t) == Max(1, t)

\* variant: the row term is left out of the sum
GridStripes(rows, cols) ==
  [shape |-> <<NpLen(rows), NpLen(cols)>>,
   at    |-> [y \in DOMAIN rows |-> [x \in DOMAIN cols |-> cols[x] % 2]]]

\* variant: the broadcast axes are exchanged, cols[:, None] + rows[None, :]
GridTransposed(rows, cols) ==
  [shape |-> <<NpLen(cols), NpLen(rows)>>,
   at    |-> [x \in DOMAIN cols |-> [y \in DOMAIN rows |-> (rows[y] + cols[x]) % 2]]]

\* grid = (rows[:, None] + cols[None, :]) % 2 : broadcasting gives a
\* (len(rows), len(cols)) array, first index the row
Grid(rows, cols) ==
  [shape |-> <<NpLen(rows), NpLen(cols)>>,
   at    |-> [y \in DOMAIN rows |-> [x \in DOMAIN cols |-> (rows[y] + cols[x]) % 2]]]

\* conversion of one integer to dtype uint8 (8-bit unsigned storage)
ToUint8(v) == v % 256

\* palette = np.array(colors, dtype=np.uint8): a (2, 3) array, indexed from 0
Palette(colors) ==
  [i \in 0..(Len(colors) - 1) |->
     [c \in 1..Len(colors[i + 1]) |-> ToUint8(colors[i + 1][c])]]

\* variant: every pixel takes palette[0]
TakePaletteFirst(palette, grid) ==
  [shape |-> grid.shape \o <<Len(palette[0])>>,
   px    |-> [y \in DOMAIN grid.at |->
                [x \in DOMAIN grid.at[y] |-> palette[0]]]]

\* frame = palette[grid]: fancy indexing, shape grid.shape + (3,)
TakePalette(palette, grid) ==
  [shape |-> grid.shape \o <<Len(palette[0])>>,
   px    |-> [y \in DOMAIN grid.at |->
                [x \in DOMAIN grid.at[y] |-> palette[grid.at[y][x]]]]]

\* the frame checkerboard_clip builds for (size, tile, colors)
CheckerboardFrame(size, tile0, colors) ==
  LET width   == size[1]
      height  == size[2]
      tile    == ClampTile(tile0)
      cols    == FloorDivArr(NpArange(width), tile)
      rows    == FloorDivArr(NpArange(height), tile)
      grid    == Grid(rows, cols)
      palette == Palette(colors)
  IN  TakePalette(palette, grid)

\* ImageClip(frame).with_duration(duration).with_fps(FPS); the clip is kept
\* by the request that determines its frame, CheckerboardFrame(size, tile,
\* colors), and the frame itself is built where it is inspected
checkerboard_clip(size, duration, tile0, colors) ==
  [kind |-> "image", size |-> size, tile |-> tile0, colors |-> colors,
   opacity |-> 100, duration |-> duration, fps |-> FPS]

(* ------------------------- strings and paths -------------------------- *)

\* A string is a sequence of tokens; "/" is the path separator, "." and ".."
\* are the dot and dot-dot tokens, every other token is a run of ordinary
\* characters.  A path is a sequence of components, each a non-empty string
\* without separator.
SuffixTokens == {"_v2", "/", ".."}

RECURSIVE SplitOnSep(_, _, _)
SplitOnSep(s, cur, acc) ==
  IF s = <<>> THEN Append(acc, cur)
  ELSE IF Head(s) = "/" THEN SplitOnSep(Tail(s), <<>>, Append(acc, cur))
  ELSE SplitOnSep(Tail(s), Append(cur, Head(s)), acc)

IsKept(c) == c # <<>> /\ c # <<".">>

\* the components pathlib keeps of a relative path string: empty and "."
\* components are dropped, ".." components are kept
Parts(s) == SelectSeq(SplitOnSep(s, <<>>, <<>>), IsKept)

\* Path.parent (lexical: the last component is dropped, ".." is not followed)
Parent(p) == IF p = <<>> THEN p ELSE SubSeq(p, 1, Len(p) - 1)

\* the directory one component leads to from the directory cur
Step(cur, c) == IF c = <<"..">> THEN Parent(cur) ELSE Append(cur, c)

\* the location a path names once every ".." is followed
RECURSIVE Normalize(_, _)
Normalize(cur, comps) ==
  IF comps = <<>> THEN cur ELSE Normalize(Step(cur, Head(comps)), Tail(comps))

\* the two command lines the script is started with: the working directory
\* and __file__ as given to the interpreter
Invocations ==
  { [cwd  |-> <<<<"proximal-testing">>>>,
     file |-> <<"example_videos", "/", "opaque_overlay_demos.py">>],
    [cwd  |-> <<<<"proximal-testing">>, <<"example_videos">>>>,
     file |-> <<".", "/", "opaque_overlay_demos.py">>] }

\* Path(__file__).resolve().parent
ScriptDir(inv) == Parent(Normalize(inv.cwd, Parts(inv.file)))

(* ----------------------------- filesystem ----------------------------- *)

\* fs = [dirs: the set of directories, files: location -> [by, state]]
\* the walk the operating system makes along comps from the directory cur
RECURSIVE Walk(_, _, _)
Walk(cur, comps, fs) ==
  IF comps = <<>> THEN [err |-> "ok", at |-> cur]
  ELSE LET next == Step(cur, Head(comps))
       IN  IF next \in fs.dirs THEN Walk(next, Tail(comps), fs)
           ELSE IF next \in DOMAIN fs.files THEN [err |-> "ENOTDIR", at |-> next]
           ELSE [err |-> "ENOENT", at |-> next]

\* Path.is_dir()
IsDir(p, fs) == Walk(<<>>, p, fs).err = "ok"

\* os.mkdir(p)
OsMkdir(p, fs) ==
  IF p = <<>> THEN [err |-> "EEXIST", fs |-> fs]
  ELSE LET w    == Walk(<<>>, Parent(p), fs)
           last == p[Len(p)]
           t    == Append(w.at, last)
       IN  IF w.err # "ok" THEN [err |-> w.err, fs |-> fs]
           ELSE IF last = <<"..">> \/ t \in fs.dirs \/ t \in DOMAIN fs.files
                THEN [err |-> "EEXIST", fs |-> fs]
           ELSE [err |-> "ok", fs |-> [fs EXCEPT !.dirs = @ \cup {t}]]

\* the except OSError branch of Path.mkdir with exist_ok=True
ExistOk(r, p) == IF r.err = "ok" \/ IsDir(p, r.fs) THEN [r EXCEPT !.err = "ok"] ELSE r

\* Path.mkdir(parents=True, exist_ok=True)
RECURSIVE PathMkdir(_, _)
PathMkdir(p, fs) ==
  LET r == OsMkdir(p, fs)
  IN  IF r.err = "ENOENT"
      THEN IF Parent(p) = p THEN r
           ELSE LET up == PathMkdir(Parent(p), fs)
                IN  IF up.err # "ok" THEN up
                    ELSE LET again == OsMkdir(p, up.fs)
                         IN  IF again.err = "ENOENT" THEN again
                             ELSE ExistOk(again, p)
      ELSE ExistOk(r, p)

(* -------------------------------- clips ------------------------------- *)

\* Opacities are kept in hundredths: 100 is opaque (no mask), 50 is 0.5.
\* ColorClip(size, color=color, duration=duration)
ColorClip(size, color, duration) ==
  [kind |-> "color", size |-> size, color |-> color, duration |-> duration,
   opacity |-> 100, pos |-> <<0, 0>>, fps |-> 0]

with_fps(c, fps)       == [c EXCEPT !.fps = fps]
with_opacity(c, o)     == [c EXCEPT !.opacity = o]
with_position(c, pos)  == [c EXCEPT !.pos = pos]

\* CompositeVideoClip(clips, bg_color=bg)
CompositeVideoClip(clips, bg) == [kind |-> "composite", clips |-> clips, bg_color |-> bg]

\* the opacities of the layers of a clip, those of nested composites included
RECURSIVE Opacities(_)
Opacities(c) ==
  IF c.kind = "composite"
  THEN UNION {Opacities(c.clips[i]) : i \in DOMAIN c.clips}
  ELSE {c.opacity}

(* -------------------------------- demos ------------------------------- *)

\* Each demo function is given by the composite it builds and the file name
\* it hands to write_video.
opaque_overlay_demo(suffix) ==
  LET duration   == 2
      size       == <<320, 240>>
      background == with_fps(ColorClip(size, <<0, 0, 255>>, duration), FPS)
      overlay    == with_opacity(ColorClip(size, <<0, 255, 0>>, duration), 50)
  IN  [clip     |-> CompositeVideoClip(<<background, overlay>>, "default"),
       filename |-> <<".", "/", "out", "/", "opaque_overlay_demo_hee">> \o suffix \o <<".mp4">>]

\* variant: the square without with_opacity(0.2)
mask_ignored_demo_opaque(suffix) ==
  LET duration   == 2
      size       == <<320, 240>>
      background == with_fps(ColorClip(size, <<255, 0, 0>>, duration), FPS)
      square     == with_position(ColorClip(<<120, 120>>, <<255, 255, 255>>, duration),
                                  <<"center", "center">>)
  IN  [clip     |-> CompositeVideoClip(<<background, square>>, "default"),
       filename |-> <<".", "/", "out", "/", "mask_ignored_demo_hee">> \o suffix \o <<".mp4">>]

mask_ignored_demo(suffix) ==
  LET duration   == 2
      size       == <<320, 240>>
      background == with_fps(ColorClip(size, <<255, 0, 0>>, duration), FPS)
      square     == with_opacity(
                      with_position(ColorClip(<<120, 120>>, <<255, 255, 255>>, duration),
                                    <<"center", "center">>), 20)
  IN  [clip     |-> CompositeVideoClip(<<background, square>>, "default"),
       filename |-> <<".", "/", "out", "/", "mask_ignored_demo_hee">> \o suffix \o <<".mp4">>]

background_transparency_demo(suffix) ==
  LET duration       == 2
      size           == <<320, 240>>
      checker        == checkerboard_clip(size, duration, DefaultTile, DefaultColors)
      translucent_bg == with_fps(with_opacity(ColorClip(size, <<0, 0, 255>>, duration), 50), FPS)
      opaque_bar     == with_fps(with_position(ColorClip(<<160, 240>>, <<0, 255, 0>>, duration),
                                               <<"right", "center">>), FPS)
      layered        == CompositeVideoClip(<<translucent_bg, opaque_bar>>, "None")
  IN  [clip     |-> CompositeVideoClip(<<checker, layered>>, "None"),
       filename |-> <<".", "/", "out", "/", "background_transparency_demo_hee">>
                      \o suffix \o <<".mp4">>]

dual_mask_blend_demo(suffix) ==
  LET duration == 2
      size     == <<320, 240>>
      base     == with_fps(with_opacity(ColorClip(size, <<0, 0, 255>>, duration), 50), FPS)
      overlay  == with_fps(with_opacity(
                    with_position(ColorClip(<<200, 160>>, <<255, 255, 0>>, duration),
                                  <<"center", "center">>), 50), FPS)
  IN  [clip     |-> CompositeVideoClip(<<base, overlay>>, "default"),
       filename |-> <<".", "/", "out", "/", "dual_mask_blend_demo_hee">> \o suffix \o <<".mp4">>]

clipped_mask_demo(suffix) ==
  LET duration   == 2
      size       == <<320, 240>>
      background == with_fps(ColorClip(size, <<0, 0, 0>>, duration), FPS)
      offscreen  == with_fps(with_opacity(
                      with_position(ColorClip(<<200, 200>>, <<255, 255, 255>>, duration),
                                    <<-80, "center">>), 50), FPS)
  IN  [clip     |-> CompositeVideoClip(<<background, offscreen>>, "default"),
       filename |-> <<".", "/", "out", "/", "clipped_mask_demo_hee">> \o suffix \o <<".mp4">>]

\* the demo function of a name
Demo(name, suffix) ==
  CASE name = "opaque_overlay_demo"          -> opaque_overlay_demo(suffix)
    [] name = "mask_ignored_demo"            -> mask_ignored_demo(suffix)
    [] name = "background_transparency_demo" -> background_transparency_demo(suffix)
    [] name = "dual_mask_blend_demo"         -> dual_mask_blend_demo(suffix)
    [] name = "clipped_mask_demo"            -> clipped_mask_demo(suffix)

\* variant: the first two calls exchanged
MainSequenceSwapped ==
  <<"mask_ignored_demo", "opaque_overlay_demo", "background_transparency_demo",
    "dual_mask_blend_demo", "clipped_mask_demo">>

\* the calls of the entry point, in program order
MainSequence ==
  <<"opaque_overlay_demo", "mask_ignored_demo", "background_transparency_demo",
    "dual_mask_blend_demo", "clipped_mask_demo">>

(* ------------------------------ write_video --------------------------- *)

\* target = Path(__file__).resolve().parent / filename
Target(inv, filename) == ScriptDir(inv) \o Parts(filename)

\* variant: the mkdir line left out
EnsureParentOmitted(target, fs) == [err |-> "ok", fs |-> fs]

\* target.parent.mkdir(parents=True, exist_ok=True)
EnsureParent(target, fs) == PathMkdir(Parent(target), fs)

\* variant: the encoder's default preset
WriteParamsSlow ==
  [fps |-> FPS, codec |-> "libx264", preset |-> "medium", bitrate |-> "500k",
   audio |-> FALSE, logger |-> "None"]

\* the keyword arguments of clip.write_videofile
WriteParams ==
  [fps |-> FPS, codec |-> "libx264", preset |-> "ultrafast", bitrate |-> "500k",
   audio |-> FALSE, logger |-> "None"]

\* the encoder opens target.as_posix() for writing: the file is created or
\* truncated at the location the operating system resolves the path to
OpenForWrite(target, who, fs) ==
  LET w == Walk(<<>>, Parent(target), fs)
      t == Step(w.at, target[Len(target)])
  IN  IF w.err # "ok" THEN [err |-> w.err, fs |-> fs, at |-> w.at]
      ELSE IF t \in fs.dirs THEN [err |-> "EISDIR", fs |-> fs, at |-> t]
      ELSE [err |-> "ok", at |-> t,
            fs  |-> [fs EXCEPT !.files =
                       [q \in DOMAIN @ \cup {t} |->
                          IF q = t THEN [by |-> who, state |-> "partial"] ELSE @[q]]]]

(* ------------------------------- state -------------------------------- *)

VARIABLES
  inv,      \* how the script was started: working directory and __file__
  argv,     \* the --suffix flag of the command line: given or not, and its value
  suffix,   \* args.suffix
  pc,       \* position of the run
  demo,     \* index in MainSequence of the demo being run
  clip,     \* the composite the current demo has built
  target,   \* write_video's local target (a path, ".." components kept)
  fs,       \* the filesystem: directories and files
  writes,   \* the write_videofile calls of this run, in call order
  started,  \* the demo functions entered in this run, in call order
  exc,      \* the exception that ended the run, "none" while there is none
  run,      \* number of the run against this filesystem
  size,     \* checkerboard_clip request: (width, height)
  tile,     \* checkerboard_clip request: tile length
  colors,   \* checkerboard_clip request: the two colours
  frame     \* <<>> before checkerboard_clip returns, <<frame>> after

mainVars  == <<inv, argv, suffix, pc, demo, clip, target, fs, writes, started, exc, run>>
boardVars == <<size, tile, colors, frame>>
vars      == <<inv, argv, suffix, pc, demo, clip, target, fs, writes, started, exc, run,
               size, tile, colors, frame>>

NoClip == [kind |-> "none"]

\* the --suffix values tried
Suffixes == UNION {[1..n -> SuffixTokens] : n \in 0..MaxSuffixLen}

Argvs == {[given |-> FALSE, value |-> <<>>]} \cup {[given |-> TRUE, value |-> s] : s \in Suffixes}

\* the filesystem before the first run: the script and the directories above it
InitFs(i) ==
  LET script == Normalize(i.cwd, Parts(i.file))
  IN  [dirs  |-> {SubSeq(script, 1, n) : n \in 0..(Len(script) - 1)},
       files |-> [q \in {script} |-> [by |-> "repository", state |-> "complete"]]]

Sizes      == (0..MaxDim) \X (0..MaxDim)
Tiles      == (-1)..MaxTile
ColorPairs == {DefaultColors,
               << <<0, 0, 255>>, <<255, 255, 255>> >>,
               << <<20, 20, 20>>, <<20, 20, 20>> >>}

MainStart ==
  /\ inv \in Invocations
  /\ argv \in Argvs
  /\ suffix = <<>>
  /\ pc = "parse"
  /\ demo = 0
  /\ clip = NoClip
  /\ target = <<>>
  /\ fs = InitFs(inv)
  /\ writes = <<>>
  /\ started = <<>>
  /\ exc = "none"
  /\ run = 1

BoardIdle ==
  /\ size = <<0, 0>>
  /\ tile = DefaultTile
  /\ colors = DefaultColors
  /\ frame = <<>>

Init == MainStart /\ BoardIdle

(* ------------------------------ entry point --------------------------- *)

\* parser.parse_args(): --suffix is a string, "" when the flag is absent
ParseArgs ==
  /\ pc = "parse"
  /\ suffix' = IF argv.given THEN argv.value ELSE <<>>
  /\ demo' = 1
  /\ pc' = "call"
  /\ UNCHANGED <<inv, argv, clip, target, fs, writes, started, exc, run, boardVars>>

\* the next demo function is entered and builds its composite
BuildDemo ==
  /\ pc = "call"
  /\ started' = Append(started, MainSequence[demo])
  /\ clip' = Demo(MainSequence[demo], suffix).clip
  /\ pc' = "built"
  /\ UNCHANGED <<inv, argv, suffix, demo, target, fs, writes, exc, run, boardVars>>

\* a constructor of the external library raises
BuildDemoRaises ==
  /\ pc = "call"
  /\ started' = Append(started, MainSequence[demo])
  /\ exc' = "construct"
  /\ pc' = "failed"
  /\ UNCHANGED <<inv, argv, suffix, demo, clip, target, fs, writes, run, boardVars>>

\* write_video, lines 20-21: the target is computed and its parent ensured
MakeDir ==
  /\ pc = "built"
  /\ LET t == Target(inv, Demo(MainSequence[demo], suffix).filename)
         r == EnsureParent(t, fs)
     IN  /\ target' = t
         /\ fs' = r.fs
         /\ pc' = IF r.err = "ok" THEN "mkdir_done" ELSE "failed"
         /\ exc' = IF r.err = "ok" THEN exc ELSE r.err
  /\ UNCHANGED <<inv, argv, suffix, demo, clip, writes, started, run, boardVars>>

\* the filesystem refuses the directory (permissions, read-only medium)
MakeDirRaises ==
  /\ pc = "built"
  /\ target' = Target(inv, Demo(MainSequence[demo], suffix).filename)
  /\ exc' = "EACCES"
  /\ pc' = "failed"
  /\ UNCHANGED <<inv, argv, suffix, demo, clip, fs, writes, started, run, boardVars>>

WriteEntry(o, status) ==
  [demo |-> MainSequence[demo], path |-> target, at |-> o.at, params |-> WriteParams,
   clip |-> clip, status |-> status]

\* clip.write_videofile(...) is called and the encoder opens the output
EncodeBegin ==
  /\ pc = "mkdir_done"
  /\ LET o == OpenForWrite(target, MainSequence[demo], fs)
     IN  /\ fs' = o.fs
         /\ writes' = Append(writes, WriteEntry(o, IF o.err = "ok" THEN "running" ELSE "failed"))
         /\ pc' = IF o.err = "ok" THEN "encoding" ELSE "failed"
         /\ exc' = IF o.err = "ok" THEN exc ELSE o.err
  /\ UNCHANGED <<inv, argv, suffix, demo, clip, target, started, run, boardVars>>

\* clip.write_videofile(...) raises before any output is opened
EncodeBeginRaises ==
  /\ pc = "mkdir_done"
  /\ writes' = Append(writes, WriteEntry([at |-> <<>>], "failed"))
  /\ exc' = "encoder"
  /\ pc' = "failed"
  /\ UNCHANGED <<inv, argv, suffix, demo, clip, target, fs, started, run, boardVars>>

Last(w) == w[Len(w)]

\* the encoder finishes, write_video and the demo function return
EncodeEnd ==
  /\ pc = "encoding"
  /\ fs' = [fs EXCEPT !.files[Last(writes).at].state = "complete"]
  /\ writes' = [writes EXCEPT ![Len(writes)].status = "done"]
  /\ IF demo < Len(MainSequence)
     THEN demo' = demo + 1 /\ pc' = "call"
     ELSE demo' = demo /\ pc' = "done"
  /\ UNCHANGED <<inv, argv, suffix, clip, target, started, exc, run, boardVars>>

\* the encoder fails with the output open: the file stays as far as written
EncodeRaises ==
  /\ pc = "encoding"
  /\ writes' = [writes EXCEPT ![Len(writes)].status = "failed"]
  /\ exc' = "encoder"
  /\ pc' = "failed"
  /\ UNCHANGED <<inv, argv, suffix, demo, clip, target, fs, started, run, boardVars>>

\* the same command line is run again against the filesystem as left
Rerun ==
  /\ pc \in {"done", "failed"}
  /\ run < MaxRuns
  /\ run' = run + 1
  /\ pc' = "parse"
  /\ suffix' = <<>>
  /\ demo' = 0
  /\ clip' = NoClip
  /\ target' = <<>>
  /\ writes' = <<>>
  /\ started' = <<>>
  /\ exc' = "none"
  /\ UNCHANGED <<inv, argv, fs, boardVars>>

Next ==
  \/ ParseArgs
  \/ BuildDemo
  \/ BuildDemoRaises
  \/ MakeDir
  \/ MakeDirRaises
  \/ EncodeBegin
  \/ EncodeBeginRaises
  \/ EncodeEnd
  \/ EncodeRaises
  \/ Rerun

Spec == Init /\ [][Next]_vars

(* ------------------- checkerboard_clip as a function ------------------ *)

MainIdle ==
  /\ inv = CHOOSE i \in Invocations : Len(i.cwd) = 1
  /\ argv = [given |-> FALSE, value |-> <<>>]
  /\ suffix = <<>>
  /\ pc = "idle"
  /\ demo = 0
  /\ clip = NoClip
  /\ target = <<>>
  /\ fs = InitFs(inv)
  /\ writes = <<>>
  /\ started = <<>>
  /\ exc = "none"
  /\ run = 1

InitBoard ==
  /\ MainIdle
  /\ size \in Sizes
  /\ tile \in Tiles
  /\ colors \in ColorPairs
  /\ frame = <<>>

\* checkerboard_clip(size, duration, tile, colors) is called and returns
CallCheckerboard ==
  /\ frame = <<>>
  /\ frame' = <<CheckerboardFrame(size, tile, colors)>>
  /\ clip' = checkerboard_clip(size, 2, tile, colors)
  /\ UNCHANGED <<inv, argv, suffix, pc, demo, target, fs, writes, started, exc, run,
                 size, tile, colors>>

NextBoard == CallCheckerboard

SpecBoard == InitBoard /\ [][NextBoard]_vars

(* --------------------- properties of checkerboard_clip ---------------- *)

\* the colours that occur in a frame
FrameColours(f) == UNION {{f.px[y][x] : x \in DOMAIN f.px[y]} : y \in DOMAIN f.px}

\* pixel coordinates <<y, x>> of the request
Pixels == (0..(size[2] - 1)) \X (0..(size[1] - 1))

\* two pixels lie in tiles that share an edge, for tile length t
AdjacentTiles(p, q, t) ==
  \/ p[1] \div t = q[1] \div t /\ (p[2] \div t) - (q[2] \div t) \in {-1, 1}
  \/ p[2] \div t = q[2] \div t /\ (p[1] \div t) - (q[1] \div t) \in {-1, 1}

\* any two pixels in edge-sharing tiles differ in colour
Alternating(f, t) ==
  \A p \in Pixels, q \in Pixels :
    AdjacentTiles(p, q, t) => f.px[p[1]][p[2]] # f.px[q[1]][q[2]]

\* C1: for a positive tile length t the returned frame has at row y, column x
\* the colour colors[((y // t) + (x // t)) mod 2], for every pixel of the
\* requested size.
C1_PixelParity ==
  (frame # <<>> /\ tile > 0) =>
    \A p \in Pixels :
      frame[1].px[p[1]][p[2]] = colors[(((p[1] \div tile) + (p[2] \div tile)) % 2) + 1]

C1_Witness ==
  /\ frame # <<>>
  /\ tile = 2
  /\ size = <<4, 3>>
  /\ colors[1] # colors[2]
  /\ frame[1].px[2][0] = colors[2]
  /\ frame[1].px[2][3] = colors[1]

\* C2: the returned frame has exactly height rows, width columns and 3
\* channels per pixel (rows first), and every channel is an integer in 0..255,
\* for every requested size and tile length.
C2_ShapeAndDtype ==
  frame # <<>> =>
    /\ frame[1].shape = <<size[2], size[1], 3>>
    /\ DOMAIN frame[1].px = 0..(size[2] - 1)
    /\ \A y \in DOMAIN frame[1].px :
         /\ DOMAIN frame[1].px[y] = 0..(size[1] - 1)
         /\ \A x \in DOMAIN frame[1].px[y] :
              /\ DOMAIN frame[1].px[y][x] = 1..3
              /\ \A c \in 1..3 : frame[1].px[y][x][c] \in 0..255

C2_Witness ==
  /\ frame # <<>>
  /\ size = <<4, 2>>
  /\ frame[1].shape = <<2, 4, 3>>
  /\ DOMAIN frame[1].px[1] = 0..3

\* C3 as stated: for every size and positive tile length the frame holds
\* exactly two distinct colours, and pixels in adjacent tiles differ.
C3_ExactlyTwoColours ==
  (frame # <<>> /\ tile > 0) =>
    /\ Cardinality(FrameColours(frame[1])) = 2
    /\ Alternating(frame[1], tile)

\* C3 amended: for a positive tile length the frame holds only the two palette
\* colours; it holds two distinct colours exactly when the palette colours
\* differ and the frame is non-empty and wider or taller than one tile; and
\* when the palette colours differ, pixels in adjacent tiles differ.
C3_AtMostTwoColours ==
  (frame # <<>> /\ tile > 0) =>
    /\ FrameColours(frame[1]) \subseteq {colors[1], colors[2]}
    /\ (Cardinality(FrameColours(frame[1])) = 2) <=>
         (/\ colors[1] # colors[2]
          /\ size[1] > 0
          /\ size[2] > 0
          /\ (size[1] > tile \/ size[2] > tile))
    /\ colors[1] # colors[2] => Alternating(frame[1], tile)

C3_Witness ==
  /\ frame # <<>>
  /\ tile = 2
  /\ size = <<4, 4>>
  /\ Cardinality(FrameColours(frame[1])) = 2
  /\ frame[1].px[0][1] # frame[1].px[0][2]
  /\ frame[1].px[1][3] # frame[1].px[2][3]

\* C4: a tile length <= 0 is clamped: the call returns, and the frame is the
\* one of tile length 1, colours[(y + x) mod 2] at row y, column x.
C4_NonPositiveTileClamped ==
  (frame # <<>> /\ tile <= 0) =>
    /\ frame[1].shape = <<size[2], size[1], 3>>
    /\ \A p \in Pixels : frame[1].px[p[1]][p[2]] = colors[((p[1] + p[2]) % 2) + 1]

C4_Witness ==
  /\ frame # <<>>
  /\ tile = -1
  /\ size = <<3, 2>>
  /\ colors[1] # colors[2]
  /\ frame[1].px[1][2] = colors[2]
  /\ frame[1].px[1][1] = colors[1]

(* ------------------------ properties of a run ------------------------- *)

\* the order of the demo calls in the entry point
FixedOrder ==
  <<"opaque_overlay_demo", "mask_ignored_demo", "background_transparency_demo",
    "dual_mask_blend_demo", "clipped_mask_demo">>

\* the out/ directory next to the script
OutDir == << <<"proximal-testing">>, <<"example_videos">>, <<"out">> >>

\* the file name <demo name>_hee<s>.mp4, as a string
OutName(name, s) ==
  LET stem == CASE name = "opaque_overlay_demo"          -> "opaque_overlay_demo_hee"
                [] name = "mask_ignored_demo"            -> "mask_ignored_demo_hee"
                [] name = "background_transparency_demo" -> "background_transparency_demo_hee"
                [] name = "dual_mask_blend_demo"         -> "dual_mask_blend_demo_hee"
                [] name = "clipped_mask_demo"            -> "clipped_mask_demo_hee"
  IN  <<stem>> \o s \o <<".mp4">>

\* the write_videofile calls of this run made by the demo name
WritesOf(name) == {i \in DOMAIN writes : writes[i].demo = name}

\* the file a completed write left is still there, whole and that write's
KeepsFile(w) ==
  /\ w.at \in DOMAIN fs.files
  /\ fs.files[w.at] = [by |-> w.demo, state |-> "complete"]

\* C5: a complete run performs exactly five writes, one per demo, to five
\* pairwise distinct files in the out/ directory, each named
\* <demo name>_hee<s>.mp4, and no demo overwrites another demo's file.
C5_FiveDistinctFiles ==
  pc = "done" =>
    /\ Len(writes) = 5
    /\ \A i \in DOMAIN writes :
         /\ writes[i].demo = FixedOrder[i]
         /\ Cardinality(WritesOf(FixedOrder[i])) = 1
         /\ writes[i].at = Append(OutDir, OutName(writes[i].demo, suffix))
         /\ KeepsFile(writes[i])
    /\ \A i \in DOMAIN writes, j \in DOMAIN writes : i # j => writes[i].at # writes[j].at

\* the part of C5 that does hold: five writes, one per demo, in order
C5_FiveWrites ==
  pc = "done" =>
    /\ Len(writes) = 5
    /\ \A i \in DOMAIN writes : writes[i].demo = FixedOrder[i]

\* C6: every write_videofile call uses frame rate 24, codec libx264, preset
\* ultrafast, bitrate 500k and no audio, whatever the demo and the suffix.
C6_FixedEncodeParameters ==
  \A i \in DOMAIN writes :
    /\ writes[i].params.fps = 24
    /\ writes[i].params.codec = "libx264"
    /\ writes[i].params.preset = "ultrafast"
    /\ writes[i].params.bitrate = "500k"
    /\ writes[i].params.audio = FALSE

C6_Witness ==
  /\ pc = "done"
  /\ run = 2
  /\ suffix = <<"_v2">>
  /\ Len(writes) = 5

\* C7: the demos are entered in the fixed order, a demo is entered only when
\* the write of every earlier demo has completed, and at most one encode is
\* in progress in any state.
C7_SequentialOrder ==
  /\ Len(started) <= Len(FixedOrder)
  /\ started = SubSeq(FixedOrder, 1, Len(started))
  /\ \A i \in 1..(Len(started) - 1) :
       \E j \in DOMAIN writes : writes[j].demo = started[i] /\ writes[j].status = "done"
  /\ Cardinality({j \in DOMAIN writes : writes[j].status = "running"}) <= 1
  /\ \A j \in DOMAIN writes : writes[j].status = "running" => j = Len(writes) /\ pc = "encoding"

C7_Witness ==
  /\ pc = "encoding"
  /\ Len(started) = 5
  /\ writes[5].status = "running"
  /\ \A j \in 1..4 : writes[j].status = "done"

\* C8: a failure ends the run with the exception, no later demo is entered,
\* the failing write is attempted at most once, and the demos that completed
\* before the failure keep their written files.
C8_FailureKeepsFiles ==
  pc = "failed" =>
    /\ exc # "none"
    /\ started = SubSeq(FixedOrder, 1, demo)
    /\ Cardinality(WritesOf(FixedOrder[demo])) <= 1
    /\ \A i \in DOMAIN writes : writes[i].status = "done" => KeepsFile(writes[i])

\* the part of C8 that does hold: the failure ends the run where it occurred
C8_FailureStops ==
  pc = "failed" =>
    /\ exc # "none"
    /\ started = SubSeq(FixedOrder, 1, demo)
    /\ Cardinality(WritesOf(FixedOrder[demo])) <= 1

\* C9: the composite of every demo holds a layer whose opacity is strictly
\* between 0 and 1, and every opacity of every demo lies in [0, 1].
C9_SemiTransparentLayer ==
  /\ clip.kind = "composite" =>
       /\ \E o \in Opacities(clip) : 0 < o /\ o < 100
       /\ \A o \in Opacities(clip) : 0 <= o /\ o <= 100
  /\ \A i \in DOMAIN writes :
       /\ \E o \in Opacities(writes[i].clip) : 0 < o /\ o < 100
       /\ \A o \in Opacities(writes[i].clip) : 0 <= o /\ o <= 100

C9_Witness ==
  /\ pc = "done"
  /\ Len(writes) = 5
  /\ Opacities(writes[2].clip) = {100, 20}
  /\ Opacities(writes[3].clip) = {100, 50}

====
